---- MODULE Spec2Model ----
(***************************************************************************)
(* Model of azure_functions_sqs/output.py: the SqsOutput decorator binding *)
(* and the SqsCollector batching collector, both talking to an SqsClient   *)
(* whose calls either answer or raise.                                     *)
(***************************************************************************)
EXTENDS Integers, Sequences, FiniteSets, TLC

\* ---------------------------------------------------------------- bounds
\* Values added to one collector over its lifetime.
MaxAdds == 12
\* flush() calls made on one collector.
MaxFlushes == 2
\* Invocations of one wrapped function.
MaxCalls == 2
\* Threads invoking one wrapped function at the same time.
MaxThreads == 2

\* ------------------------------------------------------ program constants
\* "SQS batch limit is 10 messages": the step of range() and the slice width.
BatchLimit == 10
\* "Delay before message becomes visible (0-900 seconds)".
MaxDelaySeconds == 900

\* ------------------------------------------------------------ Python values
\* A value is its Python type and its repr.
NoneValue == [type |-> "NoneType", val |-> "None"]

TextValue == [type |-> "str", val |-> "m"]

Values ==
  { TextValue,
    [type |-> "dict", val |-> "{'x': 1}"],
    [type |-> "list", val |-> "['a']"],
    [type |-> "int", val |-> "7"],
    NoneValue }

\* json.dumps with default settings: double-quoted keys and strings.
JsonDumps(value) ==
  CASE value.val = "{'x': 1}" -> "{\"x\": 1}"
    [] value.val = "['a']" -> "[\"a\"]"
    [] OTHER -> value.val

\* str(): the text of a str, the repr of anything else (str(None) is "None").
PyStr(value) == value.val

Min(a, b) == IF a < b THEN a ELSE b

\* ---------------------------------------------------------------- state
VARIABLES
  payload,       \* the value the unit of work hands to add
  messages,      \* SqsCollector._messages; each element carries the index of its add
  col_client,    \* SqsCollector._client: 0 is None, n is the n-th client constructed
  col_made,      \* SqsClient objects the collector has constructed
  pc,            \* "idle", or "send_message_batch" while flush awaits the transport
  i,             \* flush: the loop index
  sent_count,    \* flush: the running count
  nAdded,        \* add calls made
  flushNo,       \* flush calls started
  flushInput,    \* _messages as the latest flush call found it
  batchCalls,    \* the send_message_batch calls of the latest flush, with their answers
  timesSent,     \* per add call, the batch entries that carried its value
  errors,        \* the logger.error records of the latest flush
  flushResult,   \* how the latest flush call ended
  options,       \* SqsOutput.options
  out_client,    \* SqsOutput._client: 0 is None, n is the n-th client constructed
  out_made,      \* SqsClient objects the binding has constructed
  out_pc,        \* "idle", or "send_message" while the wrapper awaits the transport
  result,        \* wrapper: what func did in the latest invocation
  invNo,         \* invocations of the wrapper started
  sendCalls,     \* the send_message calls of the latest invocation
  outcome,       \* how the latest invocation of the wrapper ended
  th_pc,         \* per thread invoking the wrapper: where it is in _get_client
  th_client      \* per thread: the client _get_client returned to it, 0 before that

colVars ==
  <<payload, messages, col_client, col_made, pc, i, sent_count, nAdded, flushNo, flushInput,
    batchCalls, timesSent, errors, flushResult>>

outVars == <<options, out_client, out_made, out_pc, result, invNo, sendCalls, outcome>>

thVars == <<th_pc, th_client>>

vars == <<colVars, outVars, thVars>>

Threads == 1..MaxThreads

NoResult == [status |-> "none", value |-> 0]

\* --------------------------------------------------------------- SqsOutput
\* SqsOutputOptions(): the dataclass defaults.
DefaultOptions ==
  [delay_seconds |-> 0, message_group_id |-> "None",
   use_content_based_deduplication |-> FALSE]

\* The options a binding may be declared with.
DelayChoices == {-1, 0, MaxDelaySeconds, MaxDelaySeconds + 1}

OptionChoices ==
  [delay_seconds : DelayChoices, message_group_id : {"None", "group-1"},
   use_content_based_deduplication : BOOLEAN]

NoOutcome == [status |-> "none", value |-> NoneValue, error |-> ""]

\* SqsOutput.__init__: self.options = options or SqsOutputOptions(). The
\* collector fields are those of a collector nothing is done with.
OutputInit ==
  /\ \E given \in BOOLEAN, declared \in OptionChoices :
       options = IF given THEN declared ELSE DefaultOptions
  /\ out_client = 0
  /\ out_made = 0
  /\ out_pc = "idle"
  /\ result = NoOutcome
  /\ invNo = 0
  /\ sendCalls = <<>>
  /\ outcome = NoOutcome
  /\ th_pc = [t \in Threads |-> "idle"]
  /\ th_client = [t \in Threads |-> 0]
  /\ payload = NoneValue
  /\ messages = <<>>
  /\ col_client = 0
  /\ col_made = 0
  /\ pc = "idle"
  /\ i = 0
  /\ sent_count = 0
  /\ nAdded = 0
  /\ flushNo = 0
  /\ flushInput = <<>>
  /\ batchCalls = <<>>
  /\ timesSent = [u \in {} |-> 0]
  /\ errors = <<>>
  /\ flushResult = [status |-> "none", value |-> 0]

\* No caching: a new SqsClient for every send.
OutputGetClient_Fresh == out_made + 1

\* SqsOutput._get_client: the client it returns, and the clients made by then.
OutputGetClient == IF out_client = 0 THEN out_made + 1 ELSE out_client

OutputMade == IF out_client = 0 THEN out_made + 1 ELSE out_made

\* No check for None at all.
SkipsSend_Never(value) == FALSE

\* _send_message: "if value is None: return"
SkipsSend(value) == value.type = "NoneType"

\* _send_message: the body made of a value.
SendBody(value) ==
  IF value.type = "str" THEN value.val
  ELSE IF value.type \in {"dict", "list"} THEN JsonDumps(value)
  ELSE PyStr(value)

\* The keyword arguments a binding declared with opts passes to send_message.
SendRequest(opts, value) ==
  [body |-> SendBody(value),
   delay_seconds |-> opts.delay_seconds,
   message_group_id |-> opts.message_group_id]

\* The delay left at its default instead of taken from the options.
SendCall_NoDelay(value) ==
  [body |-> SendRequest(options, value).body,
   delay_seconds |-> 0,
   message_group_id |-> SendRequest(options, value).message_group_id,
   client |-> OutputGetClient,
   status |-> "called"]

\* The call client.send_message(body=..., delay_seconds=..., message_group_id=...).
SendCall(value) ==
  [body |-> SendRequest(options, value).body,
   delay_seconds |-> SendRequest(options, value).delay_seconds,
   message_group_id |-> SendRequest(options, value).message_group_id,
   client |-> OutputGetClient,
   status |-> "called"]

\* wrapper: func returns value; then _send_message(value) up to its transport
\* call, or through to the wrapper's return when it sends nothing.
wrapper_returns(value) ==
  /\ out_pc = "idle"
  /\ invNo < MaxCalls
  /\ invNo' = invNo + 1
  /\ result' = [status |-> "returned", value |-> value, error |-> ""]
  /\ IF SkipsSend(value)
     THEN /\ sendCalls' = <<>>
          /\ outcome' = [status |-> "returned", value |-> value, error |-> ""]
          /\ UNCHANGED <<out_client, out_made, out_pc>>
     ELSE /\ out_client' = OutputGetClient
          /\ out_made' = OutputMade
          /\ sendCalls' = <<SendCall(value)>>
          /\ out_pc' = "send_message"
          /\ outcome' = NoOutcome
  /\ UNCHANGED options

\* func's exception caught by the wrapper, which sends its text and returns.
wrapper_raises_Intercepted ==
  /\ out_pc = "idle"
  /\ invNo < MaxCalls
  /\ invNo' = invNo + 1
  /\ result' = [status |-> "raised", value |-> NoneValue, error |-> "FunctionError"]
  /\ out_client' = OutputGetClient
  /\ out_made' = OutputMade
  /\ sendCalls' = <<SendCall([type |-> "str", val |-> "FunctionError"])>>
  /\ outcome' = NoOutcome
  /\ out_pc' = "send_message"
  /\ UNCHANGED options

\* wrapper: func raises; the exception leaves the wrapper at "result = func(...)".
wrapper_raises ==
  /\ out_pc = "idle"
  /\ invNo < MaxCalls
  /\ invNo' = invNo + 1
  /\ result' = [status |-> "raised", value |-> NoneValue, error |-> "FunctionError"]
  /\ sendCalls' = <<>>
  /\ outcome' = [status |-> "raised", value |-> NoneValue, error |-> "FunctionError"]
  /\ UNCHANGED <<options, out_client, out_made, out_pc>>

\* send_message answers with a message id: _send_message returns and the
\* wrapper returns result.
send_answered ==
  /\ out_pc = "send_message"
  /\ sendCalls' = [sendCalls EXCEPT ![Len(sendCalls)] = [@ EXCEPT !.status = "answered"]]
  /\ outcome' = [status |-> "returned", value |-> result.value, error |-> ""]
  /\ out_pc' = "idle"
  /\ UNCHANGED <<options, out_client, out_made, result, invNo>>

\* The transport's exception caught and dropped, the wrapper returning result.
send_raised_Swallowed ==
  /\ out_pc = "send_message"
  /\ sendCalls' = [sendCalls EXCEPT ![Len(sendCalls)] = [@ EXCEPT !.status = "raised"]]
  /\ outcome' = [status |-> "returned", value |-> result.value, error |-> ""]
  /\ out_pc' = "idle"
  /\ UNCHANGED <<options, out_client, out_made, result, invNo>>

\* send_message raises: neither _send_message nor the wrapper catches it, so the
\* wrapper never reaches "return result".
send_raised ==
  /\ out_pc = "send_message"
  /\ sendCalls' = [sendCalls EXCEPT ![Len(sendCalls)] = [@ EXCEPT !.status = "raised"]]
  /\ outcome' = [status |-> "raised", value |-> NoneValue, error |-> "TransportError"]
  /\ out_pc' = "idle"
  /\ UNCHANGED <<options, out_client, out_made, result, invNo>>

\* ------------------------------------------------------------ SqsCollector
\* SqsCollector.__init__. The binding fields are those of a binding that is
\* never invoked.
CollectorInit ==
  /\ options = DefaultOptions
  /\ out_client = 0
  /\ out_made = 0
  /\ out_pc = "idle"
  /\ result = NoOutcome
  /\ invNo = 0
  /\ sendCalls = <<>>
  /\ outcome = NoOutcome
  /\ th_pc = [t \in Threads |-> "idle"]
  /\ th_client = [t \in Threads |-> 0]
  /\ payload \in Values
  /\ messages = <<>>
  /\ col_client = 0
  /\ col_made = 0
  /\ pc = "idle"
  /\ i = 0
  /\ sent_count = 0
  /\ nAdded = 0
  /\ flushNo = 0
  /\ flushInput = <<>>
  /\ batchCalls = <<>>
  /\ timesSent = [u \in {} |-> 0]
  /\ errors = <<>>
  /\ flushResult = NoResult

\* The body add appends for a message.
AddBody(message) ==
  IF message.type = "str" THEN message.val
  ELSE IF message.type \in {"dict", "list"} THEN JsonDumps(message)
  ELSE PyStr(message)

\* The message put at the front of the list instead of its end.
add_Prepend(message) ==
  /\ pc = "idle"
  /\ nAdded < MaxAdds
  /\ messages' = <<[body |-> AddBody(message), uid |-> nAdded + 1]>> \o messages
  /\ nAdded' = nAdded + 1
  /\ timesSent' = [u \in 1..(nAdded + 1) |-> IF u <= nAdded THEN timesSent[u] ELSE 0]
  /\ UNCHANGED <<payload, col_client, col_made, pc, i, sent_count, flushNo, flushInput,
                 batchCalls, errors, flushResult>>

add(message) ==
  /\ pc = "idle"
  /\ nAdded < MaxAdds
  /\ messages' = Append(messages, [body |-> AddBody(message), uid |-> nAdded + 1])
  /\ nAdded' = nAdded + 1
  /\ timesSent' = [u \in 1..(nAdded + 1) |-> IF u <= nAdded THEN timesSent[u] ELSE 0]
  /\ UNCHANGED <<payload, col_client, col_made, pc, i, sent_count, flushNo, flushInput,
                 batchCalls, errors, flushResult>>

\* A slice one element too wide: self._messages[i : i + 11].
Batch_Wide(msgs, from) == SubSeq(msgs, from + 1, Min(from + BatchLimit + 1, Len(msgs)))

\* self._messages[i : i + 10]
Batch(msgs, from) == SubSeq(msgs, from + 1, Min(from + BatchLimit, Len(msgs)))

\* Every entry of a batch given the same Id.
Entries_SameId(batch) ==
  [idx \in 1..Len(batch) |->
     [Id |-> "0", MessageBody |-> batch[idx].body, uid |-> batch[idx].uid]]

\* [{"Id": str(idx), "MessageBody": msg} for idx, msg in enumerate(batch)]
Entries(batch) ==
  [idx \in 1..Len(batch) |->
     [Id |-> ToString(idx - 1), MessageBody |-> batch[idx].body, uid |-> batch[idx].uid]]

\* SqsCollector._get_client: the client it returns, and the clients made by then.
CollectorGetClient == IF col_client = 0 THEN col_made + 1 ELSE col_client

CollectorMade == IF col_client = 0 THEN col_made + 1 ELSE col_made

\* The call client.send_message_batch(entries), not yet answered.
BatchCall(entries) ==
  [entries |-> entries, client |-> CollectorGetClient, status |-> "called",
   Successful |-> <<>>, Failed |-> <<>>]

\* The same call once the transport has answered it.
Answered(call, response) ==
  [call EXCEPT !.status = "answered",
               !.Successful = response.Successful,
               !.Failed = response.Failed]

\* timesSent once entries have been handed to the transport.
Sent(entries) ==
  [u \in DOMAIN timesSent |->
     timesSent[u] + Cardinality({k \in 1..Len(entries) : entries[k].uid = u})]

\* The client fetched before the emptiness check.
FlushClient_Eager == CollectorGetClient

\* flush: "if not self._messages: return 0" comes before "client = self._get_client()".
FlushClient == IF messages = <<>> THEN col_client ELSE CollectorGetClient

FlushMade == IF messages = <<>> THEN col_made ELSE CollectorMade

\* Every entry of the answer counted, failed or not.
Counted_Entries(response) == Len(response.Successful) + Len(response.Failed)

\* flush: sent_count += len(response.get("Successful", []))
Counted(response) == Len(response.Successful)

\* flush, from its call to its first send_message_batch call.
flush ==
  /\ pc = "idle"
  /\ flushNo < MaxFlushes
  /\ flushNo' = flushNo + 1
  /\ flushInput' = messages
  /\ batchCalls' = IF messages = <<>> THEN <<>>
                   ELSE <<BatchCall(Entries(Batch(messages, 0)))>>
  /\ timesSent' = IF messages = <<>> THEN timesSent
                  ELSE Sent(Entries(Batch(messages, 0)))
  /\ errors' = <<>>
  /\ col_client' = FlushClient
  /\ col_made' = FlushMade
  /\ IF messages = <<>>
     THEN /\ flushResult' = [status |-> "returned", value |-> 0]
          /\ UNCHANGED <<pc, i, sent_count>>
     ELSE /\ sent_count' = 0
          /\ i' = 0
          /\ pc' = "send_message_batch"
          /\ flushResult' = NoResult
  /\ UNCHANGED <<payload, messages, nAdded>>

\* The answers the transport may give to a call on entries: the first k entries
\* reported failed, the others successful, and possibly the last of the others
\* missing from both lists.
Ids(entries) == [k \in 1..Len(entries) |-> entries[k].Id]

FailCounts == {0, 1, 3}

Response(entries, k, drop) ==
  [Successful |-> SubSeq(Ids(entries), k + 1, Len(entries) - drop),
   Failed |-> SubSeq(Ids(entries), 1, k)]

Responses(entries) ==
  { Response(entries, t[1], t[2]) :
      t \in { u \in FailCounts \X {0, 1} : u[1] + u[2] <= Len(entries) } }

\* One record for a whole answer, however many entries failed.
ErrorRecords_FirstOnly(response) ==
  IF response.Failed = <<>> THEN <<>> ELSE <<response.Failed[1]>>

\* for failed in response["Failed"]: logger.error(..., failed["Id"], ...)
ErrorRecords(response) == [k \in 1..Len(response.Failed) |-> response.Failed[k]]

\* flush, from the answer of one send_message_batch call to the next call or,
\* after the last chunk, to its return.
batch_answered(response) ==
  /\ pc = "send_message_batch"
  /\ errors' = errors \o ErrorRecords(response)
  /\ IF i + BatchLimit < Len(messages)
     THEN /\ batchCalls' =
               Append([batchCalls EXCEPT ![Len(batchCalls)] = Answered(@, response)],
                      BatchCall(Entries(Batch(messages, i + BatchLimit))))
          /\ timesSent' = Sent(Entries(Batch(messages, i + BatchLimit)))
          /\ i' = i + BatchLimit
          /\ sent_count' = sent_count + Counted(response)
          /\ UNCHANGED <<messages, pc, flushResult>>
     ELSE /\ batchCalls' = [batchCalls EXCEPT ![Len(batchCalls)] = Answered(@, response)]
          /\ messages' = <<>>
          /\ flushResult' =
               [status |-> "returned", value |-> sent_count + Counted(response)]
          /\ pc' = "idle"
          /\ i' = 0
          /\ sent_count' = 0
          /\ UNCHANGED timesSent
  /\ UNCHANGED <<payload, col_client, col_made, nAdded, flushNo, flushInput>>

\* send_message_batch raises: nothing in flush catches it, so flush ends there.
batch_raised ==
  /\ pc = "send_message_batch"
  /\ batchCalls' = [batchCalls EXCEPT ![Len(batchCalls)] = [@ EXCEPT !.status = "raised"]]
  /\ flushResult' = [status |-> "raised", value |-> 0]
  /\ pc' = "idle"
  /\ i' = 0
  /\ sent_count' = 0
  /\ UNCHANGED <<payload, messages, col_client, col_made, nAdded, flushNo, flushInput,
                 timesSent, errors>>

Add == add(payload) /\ UNCHANGED <<outVars, thVars>>

Flush == flush /\ UNCHANGED <<outVars, thVars>>

BatchAnswered ==
  /\ pc = "send_message_batch"
  /\ \E response \in Responses(batchCalls[Len(batchCalls)].entries) : batch_answered(response)
  /\ UNCHANGED <<outVars, thVars>>

BatchRaised == batch_raised /\ UNCHANGED <<outVars, thVars>>

CollectorNext == Add \/ Flush \/ BatchAnswered \/ BatchRaised

CollectorSpec == CollectorInit /\ [][CollectorNext]_vars

WrapperReturns == (\E value \in Values : wrapper_returns(value)) /\ UNCHANGED <<colVars, thVars>>

WrapperRaises == wrapper_raises /\ UNCHANGED <<colVars, thVars>>

SendAnswered == send_answered /\ UNCHANGED <<colVars, thVars>>

SendRaised == send_raised /\ UNCHANGED <<colVars, thVars>>

OutputNext == WrapperReturns \/ WrapperRaises \/ SendAnswered \/ SendRaised

OutputSpec == OutputInit /\ [][OutputNext]_vars

\* --------------------------------------- SqsOutput invoked by several threads
\* A thread's invocation: func returns a non-null value and _send_message calls
\* _get_client, which evaluates "self._client is None".
t_invoke(t) ==
  /\ th_pc[t] = "idle"
  /\ th_pc' = [th_pc EXCEPT ![t] = IF out_client = 0 THEN "construct" ELSE "return"]
  /\ UNCHANGED <<out_client, out_made, th_client>>

\* _get_client: self._client = SqsClient(...)
t_construct(t) ==
  /\ th_pc[t] = "construct"
  /\ out_made' = out_made + 1
  /\ out_client' = out_made + 1
  /\ th_pc' = [th_pc EXCEPT ![t] = "return"]
  /\ UNCHANGED th_client

\* _get_client: return self._client
t_return(t) ==
  /\ th_pc[t] = "return"
  /\ th_client' = [th_client EXCEPT ![t] = out_client]
  /\ th_pc' = [th_pc EXCEPT ![t] = "send_message"]
  /\ UNCHANGED <<out_client, out_made>>

\* client.send_message(...) on the client the thread holds, answered or not.
t_send(t) ==
  /\ th_pc[t] = "send_message"
  /\ th_pc' = [th_pc EXCEPT ![t] = "done"]
  /\ UNCHANGED <<out_client, out_made, th_client>>

ThreadFrame == UNCHANGED <<colVars, options, out_pc, result, invNo, sendCalls, outcome>>

TInvoke == (\E t \in Threads : t_invoke(t)) /\ ThreadFrame

TConstruct == (\E t \in Threads : t_construct(t)) /\ ThreadFrame

TReturn == (\E t \in Threads : t_return(t)) /\ ThreadFrame

TSend == (\E t \in Threads : t_send(t)) /\ ThreadFrame

ConcurrentNext == TInvoke \/ TConstruct \/ TReturn \/ TSend

ConcurrentSpec == OutputInit /\ [][ConcurrentNext]_vars

\* One instance of either class, used on its own: a binding that is invoked
\* while the collector is left as constructed, or a collector that is used
\* while the binding is never invoked.
CollectorUntouched == nAdded = 0 /\ flushNo = 0

OutputUntouched == invNo = 0

InstanceInit == CollectorInit \/ OutputInit

InstanceNext == (OutputUntouched /\ CollectorNext) \/ (CollectorUntouched /\ OutputNext)

InstanceSpec == InstanceInit /\ [][InstanceNext]_vars

\* ============================================================ properties
\* ceil(n / 10)
Chunks(n) == (n + BatchLimit - 1) \div BatchLimit

\* A step on which a flush call ends, by returning or by raising.
FlushEnds == pc' = "idle" /\ (pc = "send_message_batch" \/ flushNo' # flushNo)

\* The entries of calls, in submission order.
RECURSIVE AllEntries(_)
AllEntries(calls) ==
  IF calls = <<>> THEN <<>>
  ELSE AllEntries(SubSeq(calls, 1, Len(calls) - 1)) \o calls[Len(calls)].entries

\* The entries the answers to calls reported failed, in all.
RECURSIVE FailedIn(_)
FailedIn(calls) ==
  IF calls = <<>> THEN 0
  ELSE FailedIn(SubSeq(calls, 1, Len(calls) - 1)) + Len(calls[Len(calls)].Failed)

\* The answer to call puts each of its entries in exactly one of the two lists.
Partitions(call) ==
  /\ Len(call.Successful) + Len(call.Failed) = Len(call.entries)
  /\ {call.Successful[k] : k \in 1..Len(call.Successful)}
       \cup {call.Failed[k] : k \in 1..Len(call.Failed)}
     = {call.entries[k].Id : k \in 1..Len(call.entries)}

AnsweredCalls == SelectSeq(batchCalls, LAMBDA call : call.status = "answered")

\* C1: whenever a flush call ends, by returning or by a transport error, the
\* pending list is empty.
C1_PendingEmptyAfterFlush == [][FlushEnds => messages' = <<>>]_vars

\* C2: a flush call that has ended has submitted every chunk of the pending list
\* it found, each once, whichever chunks raised.
C2_EveryChunkAttempted ==
  (pc = "idle" /\ flushNo > 0) =>
    /\ Len(batchCalls) = Chunks(Len(flushInput))
    /\ [k \in 1..Len(AllEntries(batchCalls)) |-> AllEntries(batchCalls)[k].uid]
         = [k \in 1..Len(flushInput) |-> flushInput[k].uid]

\* C3: the first flush of a collector that N values were added to, no call
\* raising, makes ceil(N/10) batch calls one after the other, each of 1 to 10
\* entries, whose bodies, taken in submission order, are the serialized values in
\* insertion order.
C3_ChunkedInOrder ==
  /\ \A c \in 1..(Len(batchCalls) - 1) : batchCalls[c].status # "called"
  /\ (flushNo = 1 /\ flushResult.status = "returned") =>
       /\ Len(batchCalls) = Chunks(Len(flushInput))
       /\ \A c \in 1..Len(batchCalls) :
            /\ Len(batchCalls[c].entries) \in 1..BatchLimit
            /\ batchCalls[c].status = "answered"
       /\ Len(AllEntries(batchCalls)) = Len(flushInput)
       /\ \A k \in 1..Len(flushInput) :
            /\ flushInput[k].uid = k
            /\ flushInput[k].body = AddBody(payload)
            /\ AllEntries(batchCalls)[k].uid = k
            /\ AllEntries(batchCalls)[k].MessageBody = flushInput[k].body

C3_Witness ==
  /\ flushNo = 1
  /\ flushResult.status = "returned"
  /\ Len(flushInput) = 12
  /\ Len(batchCalls) = 2
  /\ payload.type = "dict"

\* C4: no added value is carried by more than one submitted batch entry, over
\* any sequence of add and flush calls.
C4_SubmittedAtMostOnce == \A u \in DOMAIN timesSent : timesSent[u] <= 1

C6_EmptyFlushIsNoOp ==
  [][(flushNo' # flushNo /\ messages = <<>>) =>
       /\ flushResult' = [status |-> "returned", value |-> 0]
       /\ pc' = "idle"
       /\ batchCalls' = <<>>
       /\ timesSent' = timesSent
       /\ col_client' = col_client
       /\ col_made' = col_made]_vars

C6_Witness ==
  /\ flushNo >= 1
  /\ flushInput = <<>>
  /\ flushResult = [status |-> "returned", value |-> 0]
  /\ col_client = 0

\* The latest invocation made a send_message call and the transport raised.
SendFailed ==
  /\ out_pc = "idle"
  /\ sendCalls # <<>>
  /\ sendCalls[Len(sendCalls)].status = "raised"

\* C7: when func returned a non-null result and the send raised, the caller of
\* the wrapper still receives func's result.
C7_ResultSurvivesSendFailure ==
  SendFailed => (outcome.status = "returned" /\ outcome.value = result.value)

\* C8: an invocation whose send raised ends with the TransportError reaching the
\* invoker, never as an invocation whose send succeeded ends.
C8_SendFailureObservable ==
  SendFailed =>
    /\ outcome.status = "raised"
    /\ outcome.error = "TransportError"
    /\ outcome # [status |-> "returned", value |-> result.value, error |-> ""]

C8_Witness == SendFailed /\ result.status = "returned" /\ result.value = TextValue

\* C9: when func raises, the invocation makes no transport call and ends with
\* func's own failure.
C9_FuncFailurePropagates ==
  result.status = "raised" =>
    /\ sendCalls = <<>>
    /\ out_pc = "idle"
    /\ outcome = [status |-> "raised", value |-> NoneValue, error |-> "FunctionError"]

C9_Witness == result.status = "raised" /\ invNo = MaxCalls /\ out_client # 0

\* C10: when func returns None, the invocation makes no transport call, raises
\* nothing and returns None.
C10_NoneSkipsSend ==
  (result.status = "returned" /\ result.value = NoneValue) =>
    /\ sendCalls = <<>>
    /\ out_pc = "idle"
    /\ outcome = [status |-> "returned", value |-> NoneValue, error |-> ""]

C10_Witness == result.status = "returned" /\ result.value = NoneValue /\ out_client = 0

C12_DelayValidated ==
  \A k \in 1..Len(sendCalls) : sendCalls[k].delay_seconds \in 0..MaxDelaySeconds

\* C13: each instance constructs at most one SqsClient, does so on a step that
\* makes a transport call, and makes every transport call on that one client.
C13_ClientState ==
  /\ out_made <= 1
  /\ col_made <= 1
  /\ out_client = out_made
  /\ col_client = col_made
  /\ \A k \in 1..Len(sendCalls) : sendCalls[k].client = 1
  /\ \A c \in 1..Len(batchCalls) : batchCalls[c].client = 1

C13_ClientStep ==
  /\ out_made' # out_made =>
       (out_made = 0 /\ out_pc' = "send_message" /\ sendCalls' # <<>>)
  /\ col_made' # col_made =>
       (col_made = 0 /\ pc' = "send_message_batch" /\ batchCalls' # <<>>)

C13_ClientOnce == [](C13_ClientState) /\ [][C13_ClientStep]_vars

C13_Witness ==
  /\ flushNo = 2
  /\ batchCalls # <<>>
  /\ batchCalls[1].entries[1].uid > 1
  /\ timesSent[1] = 1
  /\ col_made = 1

\* C14: a flush returns normally only if every answer accounted for every entry
\* of its chunk.
C14_ResponseVerified ==
  flushResult.status = "returned" =>
    \A c \in 1..Len(batchCalls) : Partitions(batchCalls[c])

\* The ids the answers to calls reported failed, in order.
RECURSIVE FailedIds(_)
FailedIds(calls) ==
  IF calls = <<>> THEN <<>>
  ELSE FailedIds(SubSeq(calls, 1, Len(calls) - 1)) \o calls[Len(calls)].Failed

\* C15: flush logs one error record per failed entry, naming its id, and
\* failed entries neither stop it from submitting the later chunks nor make it
\* raise: unless the transport raised, it goes on to the next chunk and returns
\* having submitted them all.
C15_FailuresLoggedNotRaised ==
  /\ errors = FailedIds(batchCalls)
  /\ (\A c \in 1..Len(batchCalls) : batchCalls[c].status # "raised") =>
       /\ pc = "send_message_batch" =>
            (Len(batchCalls) = (i \div BatchLimit) + 1 /\ flushResult.status = "none")
       /\ (pc = "idle" /\ flushNo > 0) =>
            /\ flushResult.status = "returned"
            /\ Len(batchCalls) = Chunks(Len(flushInput))

C15_Witness ==
  /\ flushResult.status = "returned"
  /\ Len(batchCalls) = 2
  /\ Len(batchCalls[1].Failed) = 3
  /\ Len(batchCalls[2].Failed) = 1
  /\ errors = <<"0", "1", "2", "0">>

\* C16: the pending list is the serialized values of the latest adds, in
\* insertion order; a step that changes it either appends the one value of an
\* add, with no transport call, or is the end of a flush and empties it.
C16_PendingState ==
  \A k \in 1..Len(messages) :
    /\ messages[k].uid = nAdded - Len(messages) + k
    /\ messages[k].body = AddBody(payload)

C16_PendingStep ==
  /\ nAdded' # nAdded =>
       /\ nAdded' = nAdded + 1
       /\ messages' = Append(messages, [body |-> AddBody(payload), uid |-> nAdded'])
       /\ batchCalls' = batchCalls
       /\ pc' = pc
       /\ \A u \in DOMAIN timesSent : timesSent'[u] = timesSent[u]
  /\ (messages' # messages /\ nAdded' = nAdded) =>
       /\ messages' = <<>>
       /\ pc = "send_message_batch"
       /\ pc' = "idle"

C16_PendingWhole == [](C16_PendingState) /\ [][C16_PendingStep]_vars

C16_Witness ==
  /\ flushResult.status = "returned"
  /\ flushInput # <<>>
  /\ Len(messages) >= 2
  /\ messages[1].uid = Len(flushInput) + 1

\* C17: in every submitted batch the entry at position p (from 0) has the id p,
\* so no two entries of a batch share an id.
C17_IdsArePositions ==
  \A c \in 1..Len(batchCalls) :
    \A k \in 1..Len(batchCalls[c].entries) :
      /\ batchCalls[c].entries[k].Id = ToString(k - 1)
      /\ \A j \in 1..Len(batchCalls[c].entries) :
           j # k => batchCalls[c].entries[j].Id # batchCalls[c].entries[k].Id

C17_Witness ==
  /\ Len(batchCalls) = 2
  /\ Len(batchCalls[1].entries) = BatchLimit
  /\ Len(batchCalls[2].entries) = 2

\* C18: no transport call carries a body made from None: a collector that None
\* is added to submits nothing, and an invocation that returned None sends
\* nothing.
C18_NoneNeverSerialized ==
  /\ payload = NoneValue => batchCalls = <<>>
  /\ result.value = NoneValue => sendCalls = <<>>

\* C19: however the first sends of several threads interleave, the binding
\* constructs at most one SqsClient and every thread sends on that one client.
C19_InitializedOnce ==
  /\ out_made <= 1
  /\ \A t \in Threads : th_client[t] \in {0, 1}

\* The options of a binding declared like this one but for the other value of
\* use_content_based_deduplication.
Twin(opts) ==
  [opts EXCEPT !.use_content_based_deduplication = ~opts.use_content_based_deduplication]

\* C20: for the value this binding sends, the binding that differs from it only
\* in use_content_based_deduplication passes different arguments to send_message.
C20_DedupReachesTransport ==
  sendCalls # <<>> =>
    SendRequest(Twin(options), result.value) # SendRequest(options, result.value)

====
